---- MODULE Spec2Model ----
(***************************************************************************)
(* Gira System 3000 BLE integration: the command codec, the active         *)
(* connection manager (GiraBLEClient.send_command) and the passive         *)
(* broadcast listener, modelled from src/gira_ble.py and src/cover.py.     *)
(***************************************************************************)
EXTENDS Integers, Sequences, FiniteSets, TLC

(***************************************************************************)
(* Bounds of the model.                                                    *)
(***************************************************************************)
\* number of tasks that call the public operations of one GiraBLEClient
NumTasks == 2
\* set_absolute_position / generate_position_command are tried on every
\* percentage in -PctSlack .. 100 + PctSlack
PctSlack == 3
\* bytes of padding before and after a broadcast frame
MaxPad == 1

Tasks == 1..NumTasks

(***************************************************************************)
(* Protocol constants, src/gira_ble.py lines 24-38.                        *)
(***************************************************************************)
COMMAND_PREFIX == <<246, 3, 32, 1>>
COMMAND_SUFFIX == <<16, 1>>
PROPERTY_ID_MOVE == 255
PROPERTY_ID_STOP == 253
PROPERTY_ID_STEP == 254
PROPERTY_ID_SET_POSITION == 252
VALUE_UP == 0
VALUE_DOWN == 1
VALUE_STOP == 0
\* establish_connection(..., max_attempts=5)
MAX_ATTEMPTS == 5

\* Python's None for a handle; a handle is the one-element tuple <<id>>.
None == <<>>
ConnIds == 1..(NumTasks + 1)
Handles == {<<i>> : i \in ConnIds}

VARIABLES
    \* ---- GiraBLEClient ----
    _client,        \* self._client: None or the stored handle
    _is_connecting, \* self._is_connecting: None or <<the task holding it>>
    waiters,        \* FIFO queue of the tasks suspended in Lock.acquire
    live,           \* handles whose is_connected is True
    \* ---- one public operation per task; the locals die with the call ----
    pc,             \* position of the task in the call
    call,           \* the public operation in progress, with its argument;
                    \* after the call only if send_command was never entered
    command,        \* the command argument (bytes) of send_command
    client,         \* the local variable client (line 171)
    attempts,       \* attempts made inside the running establish_connection
    connCalls,      \* establish_connection calls of this call
    okWrites,       \* successful write_gatt_char calls of this call
    writeTries,     \* write_gatt_char calls of this call, failed ones too
    written,        \* the bytes of the last successful write of this call
    response,       \* the response argument of the last write_gatt_char of
                    \* this call: None, <<FALSE>> or <<TRUE>>
    failedAt,       \* what failed: "none", "notfound", "connect", "write"
    path,           \* "direct" (line 150 taken), "fresh", "direct_then_fresh"
    \* ---- what the caller gets ----
    result,         \* "none", "ok", or the exception raised
    cause,          \* the transport error the exception carries / is
    via,            \* the call was made by the cover entity (cover.py)
    raised,         \* history, kept by SpecHistory only: some disconnect()
                    \* has raised so far
    \* ---- command encoding on its own ----
    request,        \* the public operation whose command is built
    encoded,        \* the command it hands to send_command, or its error
    \* ---- broadcast decoding on its own ----
    payload,        \* the manufacturer data to decode
    decoded,        \* Pending, then None or <<position>>
    \* ---- GiraPassiveBluetoothDataUpdateCoordinator and the cover ----
    data,           \* coordinator.data: None or <<position>>
    last_update_success, \* coordinator.last_update_success
    event,          \* the advertisement handled last, None before the first
    notified,       \* the last callback ran async_update_listeners
    callback,       \* the callback that ran last: "none", "advertisement",
                    \* "unavailable"
    _attr_current_cover_position, \* the cover's position: None or <<position>>
    _attr_available, \* the cover's _attr_available
    ha_state        \* what async_write_ha_state wrote last: the availability
                    \* and the position consumers see

mgrVars == <<_client, _is_connecting, waiters, live>>
localVars == <<command, client, attempts, connCalls, okWrites, writeTries,
               written, response, failedAt, path>>
callVars == <<pc, call, command, client, attempts, connCalls, okWrites, writeTries,
              written, response, failedAt, path, result, cause>>
codecVars == <<request, encoded, payload, decoded>>
listenerVars == <<data, last_update_success, event, notified, callback,
                  _attr_current_cover_position>>
coverVars == <<_attr_available, ha_state>>
vars == <<_client, _is_connecting, waiters, live, pc, call, command, client,
          attempts, connCalls, okWrites, writeTries, written, response,
          failedAt, path, result, cause, via, raised, request, encoded, payload, decoded, data, last_update_success, event,
          notified, callback, _attr_current_cover_position, _attr_available,
          ha_state>>

(***************************************************************************)
(* Command codec.                                                          *)
(***************************************************************************)
\* What stands for the OverflowError of int.to_bytes: no byte has this value.
OverflowError == <<0 - 1>>

\* int.to_bytes(1, 'big'): one byte, OverflowError outside 0..255
to_bytes(n) == IF n \in 0..255 THEN <<n>> ELSE OverflowError

\* the two one-byte fields change places
_generate_command_swapped(property_id, value) ==
    COMMAND_PREFIX \o to_bytes(value) \o COMMAND_SUFFIX \o to_bytes(property_id)

_generate_command(property_id, value) ==
    COMMAND_PREFIX \o to_bytes(property_id) \o COMMAND_SUFFIX \o to_bytes(value)

\* the range test without its lower bound
ValidPercentage_noLowerBound(percentage) == percentage <= 100

\* the range test of generate_position_command
ValidPercentage(percentage) == 0 <= percentage /\ percentage <= 100

\* [err |-> "ValueError"] or [err |-> "none", bytes |-> the command]
generate_position_command(percentage) ==
    IF ~ValidPercentage(percentage)
    THEN [err |-> "ValueError", bytes |-> <<>>]
    ELSE [err |-> "none",
          bytes |-> _generate_command(PROPERTY_ID_SET_POSITION, percentage)]

Percentages == (0 - PctSlack)..(100 + PctSlack)
\* the percentages the connection manager is driven with
SendPercentages == {0 - 1, 42, 101}

(***************************************************************************)
(* Broadcast decoding, lines 42-44 and 76-100.                             *)
(***************************************************************************)
GIRA_MANUFACTURER_ID == 1412
BROADCAST_PREFIX == <<247, 3, 32, 1, 246, 16, 1>>

\* bytes.find(sub): the lowest 0-based index at which sub occurs, else -1
RECURSIVE FindFrom(_, _, _)
FindFrom(s, sub, i) ==
    IF i + Len(sub) > Len(s) THEN 0 - 1
    ELSE IF SubSeq(s, i + 1, i + Len(sub)) = sub THEN i
    ELSE FindFrom(s, sub, i + 1)

\* bytes.rfind(sub): the highest index instead
RECURSIVE RFindFrom(_, _, _)
RFindFrom(s, sub, i) ==
    IF i < 0 THEN 0 - 1
    ELSE IF SubSeq(s, i + 1, i + Len(sub)) = sub THEN i
    ELSE RFindFrom(s, sub, i - 1)

rfind(s, sub) == RFindFrom(s, sub, Len(s) - Len(sub))

find(s, sub) == FindFrom(s, sub, 0)

\* the quotient cut off instead of rounded
round_truncates(num, den) == num \div den

\* Python's round(num / den) for num >= 0, den > 0: to the nearest integer,
\* a tie to the even one
round(num, den) ==
    LET q == num \div den
        r == num % den
    IN  IF 2 * r < den THEN q
        ELSE IF 2 * r > den THEN q + 1
        ELSE IF q % 2 = 0 THEN q ELSE q + 1

\* line 100: ha_position = round(100 * (255 - position_byte) / 255)
ha_position(position_byte) == round(100 * (255 - position_byte), 255)

\* str.upper() on the characters an address is made of
UpperChar(c) ==
    CASE c = "a" -> "A"
      [] c = "b" -> "B"
      [] c = "c" -> "C"
      [] c = "d" -> "D"
      [] c = "e" -> "E"
      [] c = "f" -> "F"
      [] OTHER -> c

upper(str) == [i \in DOMAIN str |-> UpperChar(str[i])]

\* the payload of whatever manufacturer comes first, the key ignored
get_anyKey(dict, key) ==
    IF DOMAIN dict = {} THEN None ELSE dict[CHOOSE k \in DOMAIN dict : TRUE]

\* dict.get(key): None for a missing key; None and b"" are both falsy and
\* both are the empty tuple here
get(dict, key) == IF key \in DOMAIN dict THEN dict[key] ELSE None

\* lines 76-100: the position an advertisement carries for this device, or
\* None when the handler returns early
decode(address, service_info) ==
    IF upper(service_info.address) # upper(address) THEN None
    ELSE LET manufacturer_data ==
                 get(service_info.manufacturer_data, GIRA_MANUFACTURER_ID)
             prefix_index == find(manufacturer_data, BROADCAST_PREFIX)
         IN  IF manufacturer_data = <<>> THEN None
             ELSE IF prefix_index = 0 - 1 THEN None
             ELSE IF Len(manufacturer_data)
                       < prefix_index + Len(BROADCAST_PREFIX) + 1 THEN None
             ELSE <<ha_position(
                      manufacturer_data[prefix_index + Len(BROADCAST_PREFIX) + 1])>>

(***************************************************************************)
(* Initial state: GiraBLEClient.__init__ (lines 141-142), no call started. *)
(***************************************************************************)
MgrInit ==
    /\ _client = None
    /\ _is_connecting = None
    /\ waiters = <<>>
    /\ live = {}
    /\ pc = [t \in Tasks |-> "idle"]
    /\ call = [t \in Tasks |-> <<"none">>]
    /\ command = [t \in Tasks |-> <<>>]
    /\ client = [t \in Tasks |-> None]
    /\ attempts = [t \in Tasks |-> 0]
    /\ connCalls = [t \in Tasks |-> 0]
    /\ okWrites = [t \in Tasks |-> 0]
    /\ writeTries = [t \in Tasks |-> 0]
    /\ written = [t \in Tasks |-> <<>>]
    /\ response = [t \in Tasks |-> None]
    /\ failedAt = [t \in Tasks |-> "none"]
    /\ path = [t \in Tasks |-> "none"]
    /\ result = [t \in Tasks |-> "none"]
    /\ cause = [t \in Tasks |-> "none"]
    /\ via = [t \in Tasks |-> FALSE]
    /\ raised = FALSE

CodecInit ==
    /\ request = <<"none">>
    /\ encoded = [err |-> "none", bytes |-> <<>>]

\* what decoded holds until the payload is decoded: no position is negative
Pending == <<0 - 1>>

\* nothing to decode
NoPayload ==
    /\ payload = <<>>
    /\ decoded = None

\* the coordinator and the cover entity after construction (cover.py line
\* 71): no position yet
ListenerInit ==
    /\ data = None
    /\ last_update_success = TRUE
    /\ event = None
    /\ notified = FALSE
    /\ callback = "none"
    /\ _attr_current_cover_position = None

\* the property available read from _attr_available, as the Entity base
\* class has it
available_fromAttr == _attr_available

\* cover.py lines 74-78: the property available
available == TRUE

\* Entity.async_write_ha_state: the state consumers see is read from the
\* properties available and current_cover_position (cover.py lines 74-78,
\* 112-116)
async_write_ha_state(position) ==
    ha_state' = [available |-> available', position |-> position]

\* the cover entity when it is added: _attr_available is the entity default,
\* the first state is written from the properties
CoverInit ==
    /\ _attr_available = TRUE
    /\ ha_state = [available |-> available, position |-> None]

Init == MgrInit /\ CodecInit /\ NoPayload /\ ListenerInit /\ CoverInit

(***************************************************************************)
(* The public operations: encode, then await self.send_command(command).   *)
(***************************************************************************)
\* the caller is not inside a call
CanCall(t) == pc[t] \in {"idle", "done"}

\* entry of send_command(command): the call is about to take the lock
send_command(t, op, cmd) ==
    /\ pc' = [pc EXCEPT ![t] = "acquire"]
    /\ call' = [call EXCEPT ![t] = op]
    /\ command' = [command EXCEPT ![t] = cmd]
    /\ result' = [result EXCEPT ![t] = "none"]
    /\ cause' = [cause EXCEPT ![t] = "none"]
    /\ UNCHANGED <<mgrVars, client, attempts, connCalls, okWrites, writeTries,
                   written, response, failedAt, path, codecVars, listenerVars,
                   coverVars, raised>>

send_up_command(t) ==
    /\ CanCall(t)
    /\ send_command(t, <<"send_up_command">>, _generate_command(PROPERTY_ID_MOVE, VALUE_UP))

send_down_command(t) ==
    /\ CanCall(t)
    /\ send_command(t, <<"send_down_command">>, _generate_command(PROPERTY_ID_MOVE, VALUE_DOWN))

send_stop_command(t) ==
    /\ CanCall(t)
    /\ send_command(t, <<"send_stop_command">>, _generate_command(PROPERTY_ID_STOP, VALUE_STOP))

send_step_up_command(t) ==
    /\ CanCall(t)
    /\ send_command(t, <<"send_step_up_command">>, _generate_command(PROPERTY_ID_STEP, VALUE_UP))

send_step_down_command(t) ==
    /\ CanCall(t)
    /\ send_command(t, <<"send_step_down_command">>, _generate_command(PROPERTY_ID_STEP, VALUE_DOWN))

\* the call ends with the ValueError of generate_position_command (line 221):
\* send_command is never entered
RaiseValueError(t, op) ==
    /\ pc' = [pc EXCEPT ![t] = "done"]
    /\ call' = [call EXCEPT ![t] = op]
    /\ result' = [result EXCEPT ![t] = "ValueError"]
    /\ cause' = [cause EXCEPT ![t] = "none"]
    /\ UNCHANGED <<mgrVars, localVars, codecVars, listenerVars,
                   coverVars, raised>>

set_absolute_position(t, percentage) ==
    /\ CanCall(t)
    /\ LET c == generate_position_command(percentage)
       IN  IF c.err = "ValueError"
           THEN RaiseValueError(t, <<"set_absolute_position", percentage>>)
           ELSE send_command(t, <<"set_absolute_position", percentage>>,
                             c.bytes)

(***************************************************************************)
(* send_command, lines 149-197, one action per step between two awaits.    *)
(***************************************************************************)
\* no lock at all: every call goes straight in
LockFree_ignored == TRUE

\* asyncio.Lock.acquire takes the lock at once only if it is free and nobody
\* waits for it (line 149)
LockFree == _is_connecting = None /\ waiters = <<>>

\* line 150: if self._client and self._client.is_connected
HasLiveClient == _client # None /\ _client \in live

\* where the holder of the lock goes first: the direct write (line 156) or
\* the device resolution (line 166)
Enter(t) ==
    /\ pc' = [pc EXCEPT ![t] = IF HasLiveClient THEN "direct_write" ELSE "resolve"]
    /\ path' = [path EXCEPT ![t] = IF HasLiveClient THEN "direct" ELSE "fresh"]

\* async with self._is_connecting: the lock is free
Acquire(t) ==
    /\ pc[t] = "acquire"
    /\ LockFree
    /\ _is_connecting' = <<t>>
    /\ Enter(t)
    /\ UNCHANGED <<_client, waiters, live, call, command, client, attempts,
                   connCalls, okWrites, writeTries, written, response, failedAt, result,
                   cause, codecVars, listenerVars,
                   via, coverVars, raised>>

\* async with self._is_connecting: the lock is taken, the task queues
Block(t) ==
    /\ pc[t] = "acquire"
    /\ ~LockFree
    /\ waiters' = Append(waiters, t)
    /\ pc' = [pc EXCEPT ![t] = "wait"]
    /\ UNCHANGED <<_client, _is_connecting, live, call, localVars, result,
                   cause, codecVars, listenerVars,
                   via, coverVars, raised>>

\* the first waiter is woken by the release and takes the lock
Wake(t) ==
    /\ pc[t] = "wait"
    /\ _is_connecting = None
    /\ waiters # <<>>
    /\ Head(waiters) = t
    /\ waiters' = Tail(waiters)
    /\ _is_connecting' = <<t>>
    /\ Enter(t)
    /\ UNCHANGED <<_client, live, call, command, client, attempts, connCalls,
                   okWrites, writeTries, written, response, failedAt, result, cause,
                   codecVars, listenerVars,
                   via, coverVars, raised>>

\* cover.py lines 80-110: the command methods of the cover catch UpdateFailed
\* only; the handler sets _attr_available and writes the state
except_UpdateFailed(t, res) ==
    IF via[t] /\ res = "UpdateFailed"
    THEN /\ _attr_available' = FALSE
         /\ async_write_ha_state(_attr_current_cover_position)
    ELSE UNCHANGED coverVars

\* the call ends without releasing the lock
Exit_keepsLock(t, res, cz) ==
    /\ pc' = [pc EXCEPT ![t] = "done"]
    /\ result' = [result EXCEPT ![t] = res]
    /\ cause' = [cause EXCEPT ![t] = cz]
    /\ UNCHANGED _is_connecting
    /\ call' = [call EXCEPT ![t] = <<"none">>]
    /\ command' = [command EXCEPT ![t] = <<>>]
    /\ client' = [client EXCEPT ![t] = None]
    /\ attempts' = [attempts EXCEPT ![t] = 0]
    /\ connCalls' = [connCalls EXCEPT ![t] = 0]
    /\ okWrites' = [okWrites EXCEPT ![t] = 0]
    /\ writeTries' = [writeTries EXCEPT ![t] = 0]
    /\ written' = [written EXCEPT ![t] = <<>>]
    /\ response' = [response EXCEPT ![t] = None]
    /\ failedAt' = [failedAt EXCEPT ![t] = "none"]
    /\ path' = [path EXCEPT ![t] = "none"]
    /\ except_UpdateFailed(t, res)
    /\ UNCHANGED via

\* the call leaves the async with block, returning or raising res (with the
\* transport error cz): __aexit__ releases the lock, the locals are gone
Exit(t, res, cz) ==
    /\ pc' = [pc EXCEPT ![t] = "done"]
    /\ result' = [result EXCEPT ![t] = res]
    /\ cause' = [cause EXCEPT ![t] = cz]
    /\ _is_connecting' = None
    /\ call' = [call EXCEPT ![t] = <<"none">>]
    /\ command' = [command EXCEPT ![t] = <<>>]
    /\ client' = [client EXCEPT ![t] = None]
    /\ attempts' = [attempts EXCEPT ![t] = 0]
    /\ connCalls' = [connCalls EXCEPT ![t] = 0]
    /\ okWrites' = [okWrites EXCEPT ![t] = 0]
    /\ writeTries' = [writeTries EXCEPT ![t] = 0]
    /\ written' = [written EXCEPT ![t] = <<>>]
    /\ response' = [response EXCEPT ![t] = None]
    /\ failedAt' = [failedAt EXCEPT ![t] = "none"]
    /\ path' = [path EXCEPT ![t] = "none"]
    /\ except_UpdateFailed(t, res)
    /\ UNCHANGED via

\* line 156 succeeds
DirectWriteOK(t) ==
    /\ pc[t] = "direct_write"
    /\ okWrites' = [okWrites EXCEPT ![t] = @ + 1]
    /\ writeTries' = [writeTries EXCEPT ![t] = @ + 1]
    /\ written' = [written EXCEPT ![t] = command[t]]
    /\ response' = [response EXCEPT ![t] = <<FALSE>>]
    /\ pc' = [pc EXCEPT ![t] = "direct_return"]
    /\ UNCHANGED <<mgrVars, call, command, client, attempts, connCalls,
                   failedAt, path, result, cause, codecVars, listenerVars,
                   via, coverVars, raised>>

\* line 157 returns: the handle stays stored and connected
DirectReturn(t) ==
    /\ pc[t] = "direct_return"
    /\ Exit(t, "ok", "none")
    /\ UNCHANGED <<_client, waiters, live, codecVars, listenerVars,
                   raised>>

\* line 156 raises BleakError / TimeoutError; the handler runs line 161 next
DirectWriteFail(t) ==
    /\ pc[t] = "direct_write"
    /\ writeTries' = [writeTries EXCEPT ![t] = @ + 1]
    /\ response' = [response EXCEPT ![t] = <<FALSE>>]
    /\ pc' = [pc EXCEPT ![t] = "stale_disconnect"]
    /\ UNCHANGED <<mgrVars, call, command, client, attempts, connCalls, okWrites,
                   written, failedAt, path, result, cause, codecVars, listenerVars,
                   via, coverVars, raised>>

\* the handle is cleared without the disconnect of line 161
StaleDisconnectOK_noDisconnect(t) ==
    /\ pc[t] = "stale_disconnect"
    /\ _client' = None
    /\ pc' = [pc EXCEPT ![t] = "resolve"]
    /\ path' = [path EXCEPT ![t] = "direct_then_fresh"]
    /\ UNCHANGED <<_is_connecting, waiters, live, call, command, client,
                   attempts, connCalls, okWrites, writeTries, written, response,
                   failedAt, result, cause, codecVars, listenerVars,
                   via, coverVars, raised>>

\* line 161 returns, line 162 clears the handle, the call falls through
StaleDisconnectOK(t) ==
    /\ pc[t] = "stale_disconnect"
    /\ live' = live \ {_client}
    /\ _client' = None
    /\ pc' = [pc EXCEPT ![t] = "resolve"]
    /\ path' = [path EXCEPT ![t] = "direct_then_fresh"]
    /\ UNCHANGED <<_is_connecting, waiters, call, command, client, attempts,
                   connCalls, okWrites, writeTries, written, response, failedAt, result,
                   cause, codecVars, listenerVars,
                   via, coverVars, raised>>

\* line 161 raises inside the except handler: nothing catches it, line 162
\* is skipped
StaleDisconnectFail(t) ==
    /\ pc[t] = "stale_disconnect"
    /\ Exit(t, "BleakError", "disconnect_error")
    /\ UNCHANGED <<_client, waiters, live, codecVars, listenerVars>>

\* line 166 finds the device; line 171; establish_connection is called
ResolveFound(t) ==
    /\ pc[t] = "resolve"
    /\ client' = [client EXCEPT ![t] = None]
    /\ connCalls' = [connCalls EXCEPT ![t] = @ + 1]
    /\ pc' = [pc EXCEPT ![t] = "connect"]
    /\ UNCHANGED <<mgrVars, call, command, attempts, okWrites, writeTries, written, response,
                   failedAt, path, result, cause, codecVars, listenerVars,
                   via, coverVars, raised>>

\* line 166 finds nothing; line 169 raises UpdateFailed outside the try
ResolveNotFound(t) ==
    /\ pc[t] = "resolve"
    /\ Exit(t, "UpdateFailed", "none")
    /\ UNCHANGED <<_client, waiters, live, codecVars, listenerVars,
                   raised>>

\* a handle no task and no field refers to and that is not connected
NewHandle ==
    LET used == live \cup {_client} \cup {client[u] : u \in Tasks}
    IN  <<CHOOSE i \in ConnIds : <<i>> \notin used>>

\* one attempt of establish_connection (line 173) fails; the last one makes
\* it raise, lines 190-192 wrap the error
ConnectAttemptFail(t) ==
    /\ pc[t] = "connect"
    /\ attempts[t] < MAX_ATTEMPTS
    /\ IF attempts[t] + 1 = MAX_ATTEMPTS
       THEN /\ attempts' = [attempts EXCEPT ![t] = 0]
            /\ failedAt' = [failedAt EXCEPT ![t] = "connect"]
            /\ pc' = [pc EXCEPT ![t] = "finally"]
       ELSE /\ attempts' = [attempts EXCEPT ![t] = @ + 1]
            /\ UNCHANGED <<failedAt, pc>>
    /\ UNCHANGED <<mgrVars, call, command, client, connCalls, okWrites, writeTries,
                   written, response, path, result, cause, codecVars, listenerVars,
                   via, coverVars, raised>>

\* an attempt of establish_connection succeeds; line 180 stores the handle
ConnectOK(t) ==
    /\ pc[t] = "connect"
    /\ attempts[t] < MAX_ATTEMPTS
    /\ attempts' = [attempts EXCEPT ![t] = 0]
    /\ LET h == NewHandle
       IN  /\ live' = live \cup {h}
           /\ client' = [client EXCEPT ![t] = h]
           /\ _client' = h
    /\ pc' = [pc EXCEPT ![t] = "write"]
    /\ UNCHANGED <<_is_connecting, waiters, call, command, connCalls, okWrites,
                   writeTries, written, response, failedAt, path, result, cause,
                   codecVars, listenerVars,
                   via, coverVars, raised>>

\* line 187 succeeds
WriteOK(t) ==
    /\ pc[t] = "write"
    /\ okWrites' = [okWrites EXCEPT ![t] = @ + 1]
    /\ writeTries' = [writeTries EXCEPT ![t] = @ + 1]
    /\ written' = [written EXCEPT ![t] = command[t]]
    /\ response' = [response EXCEPT ![t] = <<TRUE>>]
    /\ pc' = [pc EXCEPT ![t] = "finally"]
    /\ UNCHANGED <<mgrVars, call, command, client, attempts, connCalls, failedAt,
                   path, result, cause, codecVars, listenerVars,
                   via, coverVars, raised>>

\* line 187 raises; lines 190-192 wrap the error
WriteFail(t) ==
    /\ pc[t] = "write"
    /\ writeTries' = [writeTries EXCEPT ![t] = @ + 1]
    /\ failedAt' = [failedAt EXCEPT ![t] = "write"]
    /\ response' = [response EXCEPT ![t] = <<TRUE>>]
    /\ pc' = [pc EXCEPT ![t] = "finally"]
    /\ UNCHANGED <<mgrVars, call, command, client, attempts, connCalls, okWrites,
                   written, path, result, cause, codecVars, listenerVars,
                   via, coverVars, raised>>

\* what the try block of lines 172-192 ends with
Outcome(t) == IF failedAt[t] = "none" THEN "ok" ELSE "UpdateFailed"

\* raise UpdateFailed(...) from e: the transport error it carries
OutcomeCause(t) ==
    CASE failedAt[t] = "connect" -> "connect_error"
      [] failedAt[t] = "write" -> "write_error"
      [] OTHER -> "none"

\* line 194: if client and client.is_connected
MustDisconnect(t) == client[t] # None /\ client[t] \in live

\* finally, lines 193-195: the handle is connected, disconnect it
FinallyDisconnect(t) ==
    /\ pc[t] = "finally"
    /\ MustDisconnect(t)
    /\ pc' = [pc EXCEPT ![t] = "disconnect"]
    /\ UNCHANGED <<mgrVars, call, localVars, result, cause, codecVars, listenerVars,
                   via, coverVars, raised>>

\* finally, lines 194 and 197: nothing to disconnect, clear the handle
FinallyClear(t) ==
    /\ pc[t] = "finally"
    /\ ~MustDisconnect(t)
    /\ _client' = None
    /\ Exit(t, Outcome(t), OutcomeCause(t))
    /\ UNCHANGED <<waiters, live, codecVars, listenerVars,
                   raised>>

\* line 196 returns, the stored handle is not cleared
DisconnectOK_keepsHandle(t) ==
    /\ pc[t] = "disconnect"
    /\ live' = live \ {client[t]}
    /\ Exit(t, Outcome(t), OutcomeCause(t))
    /\ UNCHANGED <<_client, waiters, codecVars, listenerVars, raised>>

\* line 196 returns, line 197 clears the handle
DisconnectOK(t) ==
    /\ pc[t] = "disconnect"
    /\ live' = live \ {client[t]}
    /\ _client' = None
    /\ Exit(t, Outcome(t), OutcomeCause(t))
    /\ UNCHANGED <<waiters, codecVars, listenerVars,
                   raised>>

\* line 196 raises inside finally: the error replaces whatever was in
\* flight and line 197 is skipped
DisconnectFail(t) ==
    /\ pc[t] = "disconnect"
    /\ Exit(t, "BleakError", "disconnect_error")
    /\ UNCHANGED <<_client, waiters, live, codecVars, listenerVars>>

\* the link of a connected handle drops: is_connected turns False
LinkLost(h) ==
    /\ h \in live
    /\ live' = live \ {h}
    /\ UNCHANGED <<_client, _is_connecting, waiters, callVars, codecVars, listenerVars,
                   via, coverVars, raised>>

\* a call made on the client itself, not by the cover entity
Direct(t) == via' = [via EXCEPT ![t] = FALSE]

\* the public operations of GiraBLEClient called directly (lines 199-222)
ClientCall(t) ==
    \/ send_up_command(t) /\ Direct(t)
    \/ send_down_command(t) /\ Direct(t)
    \/ send_stop_command(t) /\ Direct(t)
    \/ send_step_up_command(t) /\ Direct(t)
    \/ send_step_down_command(t) /\ Direct(t)
    \/ \E p \in SendPercentages : set_absolute_position(t, p) /\ Direct(t)

\* the steps of a running send_command in which no disconnect() raises (in
\* StaleDisconnectFail and DisconnectFail one does)
Step(t) ==
    \/ Acquire(t)
    \/ Block(t)
    \/ Wake(t)
    \/ DirectWriteOK(t)
    \/ DirectReturn(t)
    \/ DirectWriteFail(t)
    \/ StaleDisconnectOK(t)
    \/ ResolveFound(t)
    \/ ResolveNotFound(t)
    \/ ConnectAttemptFail(t)
    \/ ConnectOK(t)
    \/ WriteOK(t)
    \/ WriteFail(t)
    \/ FinallyDisconnect(t)
    \/ FinallyClear(t)
    \/ DisconnectOK(t)

Next ==
    \/ \E t \in Tasks :
        \/ ClientCall(t)
        \/ Step(t)
        \/ StaleDisconnectFail(t) /\ UNCHANGED raised
        \/ DisconnectFail(t) /\ UNCHANGED raised
    \/ \E h \in Handles : LinkLost(h)

Spec == Init /\ [][Next]_vars

\* every step of a running send_command, a raising disconnect() included
Runs(t) ==
    \/ Step(t)
    \/ StaleDisconnectFail(t) /\ UNCHANGED raised
    \/ DisconnectFail(t) /\ UNCHANGED raised

\* the connection manager with its history: whether a disconnect() raised
NextHistory ==
    \/ \E t \in Tasks :
        \/ ClientCall(t)
        \/ Step(t)
        \/ StaleDisconnectFail(t) /\ raised' = TRUE
        \/ DisconnectFail(t) /\ raised' = TRUE
    \/ \E h \in Handles : LinkLost(h)

SpecHistory == Init /\ [][NextHistory]_vars

\* the connection manager under one command: which command is sent has no
\* part in how send_command runs
NextFair ==
    \/ \E t \in Tasks :
        \/ send_stop_command(t) /\ Direct(t)
        \/ Runs(t)
    \/ \E h \in Handles : LinkLost(h)

\* Every await of a running call returns or raises, and the event loop runs
\* the task then: a step of a call that stays possible is taken. Nothing
\* makes a caller start a call.
SpecFair == Init /\ [][NextFair]_vars /\ \A t \in Tasks : WF_vars(Runs(t))

(***************************************************************************)
(* The command each public operation builds (lines 199-222), on its own.   *)
(***************************************************************************)
Operations ==
    {<<"send_up_command">>, <<"send_down_command">>, <<"send_stop_command">>,
     <<"send_step_up_command">>, <<"send_step_down_command">>}
        \cup {<<"set_absolute_position", p>> : p \in Percentages}

\* the argument the operation gives send_command, or the error it raises
CommandOf(op) ==
    CASE op[1] = "send_up_command" ->
           [err |-> "none", bytes |-> _generate_command(PROPERTY_ID_MOVE, VALUE_UP)]
      [] op[1] = "send_down_command" ->
           [err |-> "none", bytes |-> _generate_command(PROPERTY_ID_MOVE, VALUE_DOWN)]
      [] op[1] = "send_stop_command" ->
           [err |-> "none", bytes |-> _generate_command(PROPERTY_ID_STOP, VALUE_STOP)]
      [] op[1] = "send_step_up_command" ->
           [err |-> "none", bytes |-> _generate_command(PROPERTY_ID_STEP, VALUE_UP)]
      [] op[1] = "send_step_down_command" ->
           [err |-> "none", bytes |-> _generate_command(PROPERTY_ID_STEP, VALUE_DOWN)]
      [] op[1] = "set_absolute_position" -> generate_position_command(op[2])

BuildCommand(op) ==
    /\ request' = op
    /\ encoded' = CommandOf(op)
    /\ UNCHANGED <<payload, decoded, mgrVars, callVars, listenerVars, coverVars,
                   via, raised>>

NextCodec == \E op \in Operations : BuildCommand(op)

SpecCodec == Init /\ [][NextCodec]_vars

(***************************************************************************)
(* The passive listener: advertisements and the unavailable signal.        *)
(***************************************************************************)
\* the address the coordinator was created with, and the addresses heard
Address == <<"a", "B", ":", "0", "1">>
SameAddressOtherCase == <<"A", "b", ":", "0", "1">>
OtherAddress == <<"a", "B", ":", "0", "2">>

\* bytes around the frame: 247 is the first byte of the prefix
PadBytes == {0, 247}
RECURSIVE PadsOf(_)
PadsOf(n) ==
    IF n = 0 THEN {<<>>}
    ELSE PadsOf(n - 1) \cup {Append(q, x) : q \in PadsOf(n - 1), x \in PadBytes}
Pads == PadsOf(MaxPad)

\* what may stand before a frame: padding, a prefix cut short, a whole
\* earlier frame
Leads ==
    Pads \cup {SubSeq(BROADCAST_PREFIX, 1, 6), BROADCAST_PREFIX \o <<7>>}

\* position bytes tried in every layout
SampleBytes == {0, 1, 122, 127, 128, 254, 255}

\* payloads that hold a frame with position byte b
FramePayloads(b) ==
    {lead \o BROADCAST_PREFIX \o <<b>> \o tail : lead \in Leads, tail \in Pads}

\* payloads that hold none: empty, noise, a prefix cut short, a prefix with
\* nothing after it
NoFramePayloads ==
    {<<>>, <<0>>, <<247, 3, 32, 1>>, SubSeq(BROADCAST_PREFIX, 1, 6),
     <<247, 3, 32, 1, 246, 16, 2, 122>>, BROADCAST_PREFIX}
        \cup {lead \o BROADCAST_PREFIX : lead \in Pads}

\* the manufacturer_data dictionaries tried with a payload; 76 is another
\* manufacturer's identifier
DictsOf(bytes) ==
    {GIRA_MANUFACTURER_ID :> bytes,
     76 :> bytes,
     (76 :> <<1, 2>>) @@ (GIRA_MANUFACTURER_ID :> bytes)}

\* the advertisements the transport delivers
Advertisements ==
    {[address |-> Address, manufacturer_data |-> GIRA_MANUFACTURER_ID :> bytes] :
        bytes \in UNION {FramePayloads(b) : b \in SampleBytes}
                        \cup NoFramePayloads}
    \cup {[address |-> a, manufacturer_data |-> d] :
             a \in {Address, SameAddressOtherCase, OtherAddress},
             d \in UNION {DictsOf(bytes) :
                    bytes \in {BROADCAST_PREFIX \o <<122>>, BROADCAST_PREFIX, <<>>}}}
    \cup {[address |-> a, manufacturer_data |-> <<>>] :
             a \in {Address, OtherAddress}}

\* the cover writes its state without taking the coordinator's position
_handle_coordinator_update_keeps(coordinator_data) ==
    /\ UNCHANGED _attr_current_cover_position
    /\ async_write_ha_state(_attr_current_cover_position)

\* cover.py lines 127-138: the cover takes the coordinator's position and
\* writes its state
_handle_coordinator_update(coordinator_data) ==
    IF coordinator_data # None
    THEN /\ _attr_current_cover_position' = coordinator_data
         /\ async_write_ha_state(coordinator_data)
    ELSE /\ UNCHANGED _attr_current_cover_position
         /\ async_write_ha_state(_attr_current_cover_position)

\* the unavailable signal also drops the held position
_async_handle_unavailable_forgets ==
    /\ UNCHANGED _attr_available
    /\ callback' = "unavailable"
    /\ last_update_success' = FALSE
    /\ notified' = TRUE
    /\ data' = None
    /\ _handle_coordinator_update(None)
    /\ UNCHANGED <<event, mgrVars, callVars, codecVars, via, raised>>

\* lines 62-68
_async_handle_unavailable ==
    /\ UNCHANGED _attr_available
    /\ callback' = "unavailable"
    /\ last_update_success' = FALSE
    /\ notified' = TRUE
    /\ _handle_coordinator_update(data)
    /\ UNCHANGED <<data, event, mgrVars, callVars, codecVars, via, raised>>

\* lines 70-113
_async_handle_bluetooth_event(service_info) ==
    LET position == decode(Address, service_info)
    IN  /\ UNCHANGED _attr_available
        /\ callback' = "advertisement"
        /\ event' = service_info
        /\ IF position = None
           THEN /\ notified' = FALSE
                /\ UNCHANGED <<data, _attr_current_cover_position, ha_state>>
           ELSE /\ data' = position
                /\ notified' = TRUE
                /\ _handle_coordinator_update(position)
        /\ UNCHANGED <<last_update_success, mgrVars, callVars, codecVars, via,
                       raised>>

(***************************************************************************)
(* Broadcast decoding on its own: every position byte in every layout.     *)
(***************************************************************************)
DecodePayloads ==
    UNION {FramePayloads(b) : b \in 0..255} \cup NoFramePayloads

InitDecode ==
    /\ MgrInit /\ CodecInit /\ ListenerInit /\ CoverInit
    /\ payload \in DecodePayloads
    /\ decoded = Pending

\* the handler's decoding of one advertisement of the device (lines 76-100)
DecodeBroadcast ==
    /\ decoded = Pending
    /\ decoded' = decode(Address,
                         [address |-> Address,
                          manufacturer_data |-> GIRA_MANUFACTURER_ID :> payload])
    /\ UNCHANGED <<payload, request, encoded, mgrVars, callVars, listenerVars,
                   coverVars, via, raised>>

NextDecode == DecodeBroadcast

SpecDecode == InitDecode /\ [][NextDecode]_vars

NextListener ==
    \/ \E service_info \in Advertisements :
          _async_handle_bluetooth_event(service_info)
    \/ _async_handle_unavailable

SpecListener == Init /\ [][NextListener]_vars

(***************************************************************************)
(* The cover entity: its commands go through the client (cover.py lines    *)
(* 80-110), the unavailable signal reaches it through the coordinator.     *)
(***************************************************************************)
\* a call made by the cover entity
ByCover(t) == via' = [via EXCEPT ![t] = TRUE]

\* cover.py lines 80-86
async_open_cover(t) == send_up_command(t) /\ ByCover(t)

\* cover.py lines 88-94
async_close_cover(t) == send_down_command(t) /\ ByCover(t)

\* cover.py lines 96-102
async_stop_cover(t) == send_stop_command(t) /\ ByCover(t)

\* cover.py lines 104-110
async_set_cover_position(t, position) ==
    set_absolute_position(t, position) /\ ByCover(t)

NextCover ==
    \/ \E t \in Tasks :
        \/ async_open_cover(t)
        \/ async_close_cover(t)
        \/ async_stop_cover(t)
        \/ \E p \in SendPercentages : async_set_cover_position(t, p)
        \/ Step(t)
        \/ StaleDisconnectFail(t) /\ UNCHANGED raised
        \/ DisconnectFail(t) /\ UNCHANGED raised
    \/ \E h \in Handles : LinkLost(h)
    \/ _async_handle_unavailable

SpecCover == Init /\ [][NextCover]_vars

(***************************************************************************)
(* Properties of the connection manager (Spec).                            *)
(***************************************************************************)
\* the positions at which a call holds the lock: between acquiring it and
\* leaving the async with block
InSend == {"direct_write", "direct_return", "stale_disconnect", "resolve",
           "connect", "write", "finally", "disconnect"}

\* the step in which send_command of task t returns or raises
Leaves(t) == pc[t] \in InSend /\ pc'[t] = "done"

\* C1: the transport operations of two send_command calls never interleave:
\* a call that is anywhere between its first transport operation and the
\* release of the lock holds the lock, and no other call is in that span.
C1_NoInterleaving ==
    \A t \in Tasks :
        pc[t] \in InSend =>
            /\ _is_connecting = <<t>>
            /\ \A u \in Tasks \ {t} : pc[u] \notin InSend

\* a call whose write failed is disconnecting while a second call waits
C1_Witness ==
    \E t \in Tasks, u \in Tasks :
        /\ pc[t] = "disconnect" /\ failedAt[t] = "write"
        /\ pc[u] = "wait"

\* C2: whenever send_command returns or raises, the stored handle is None
\* and no connection is open.
C2_NoDanglingHandle ==
    [][\A t \in Tasks : Leaves(t) => (_client' = None /\ live' = {})]_vars

\* C3: a call that returns has made exactly one successful write, of its
\* command; a call that raises has made none; no call makes two.
C3_ExactlyOneWrite ==
    /\ [](\A t \in Tasks : okWrites[t] <= 1)
    /\ [][\A t \in Tasks :
            Leaves(t) =>
                IF result'[t] = "ok"
                THEN okWrites[t] = 1 /\ written[t] = command[t]
                ELSE okWrites[t] = 0]_vars

\* C4: a call that finds no device raises UpdateFailed at once: it has made
\* no connection attempt and no write, the stored handle is None and the
\* lock is free.
C4_NotFoundFailsImmediately ==
    [][\A t \in Tasks :
         (pc[t] = "resolve" /\ pc'[t] = "done") =>
             /\ result'[t] = "UpdateFailed"
             /\ connCalls[t] = 0
             /\ writeTries[t] = 0
             /\ _client' = None
             /\ _is_connecting' = None]_vars

\* C5: when a call ends after its connection or its write failed, the
\* stored handle is None and the test of line 150 fails for the next call,
\* which therefore resolves the device and connects afresh.
C5_HandleClearedAfterFailure ==
    [][\A t \in Tasks :
         (Leaves(t) /\ failedAt[t] \in {"connect", "write"}) =>
             (_client' = None /\ ~HasLiveClient')]_vars

\* a set_absolute_position call with a percentage outside 0..100
InvalidPosition(op) ==
    /\ op[1] = "set_absolute_position"
    /\ (op[2] < 0 \/ op[2] > 100)

\* C6: set_absolute_position(p) with p < 0 or p > 100 ends with ValueError
\* without ever taking or waiting for the lock, and the step in which it is
\* called leaves the lock, its queue, the handle and the transport alone.
C6_InvalidPositionBeforeLock ==
    /\ [](\A t \in Tasks :
            InvalidPosition(call[t]) =>
                (pc[t] = "done" /\ result[t] = "ValueError"))
    /\ [][\A t \in Tasks :
            (InvalidPosition(call'[t]) /\ (call'[t] # call[t] \/ pc'[t] # pc[t]))
                => UNCHANGED mgrVars]_vars

\* the call was rejected while another call holds the lock and is connected
C6_Witness ==
    \E t \in Tasks, u \in Tasks :
        /\ InvalidPosition(call[t]) /\ result[t] = "ValueError"
        /\ pc[u] = "write" /\ _is_connecting = <<u>> /\ live # {}

\* C7: a call ends with nothing but a return, the ValueError of the codec
\* or UpdateFailed, and a transport error is only ever the cause of an
\* UpdateFailed.
C7_OnlyUpdateFailed ==
    \A t \in Tasks :
        pc[t] = "done" =>
            /\ result[t] \in {"ok", "ValueError", "UpdateFailed"}
            /\ (cause[t] # "none" => result[t] = "UpdateFailed")

\* C8: at most one connection is live, and the stored handle changes only
\* in a step of the task that holds the lock.
C8_OneLiveConnection ==
    /\ [](Cardinality(live) <= 1)
    /\ [][_client' # _client =>
            \E t \in Tasks :
                /\ _is_connecting = <<t>>
                /\ pc[t] \in InSend
                /\ pc'[t] # pc[t]]_vars

\* one call is connected and about to write, another one waits
C8_Witness ==
    \E t \in Tasks, u \in Tasks :
        /\ pc[t] = "write" /\ _client = client[t] /\ live = {client[t]}
        /\ pc[u] = "wait"

(***************************************************************************)
(* Properties of the codec (SpecCodec, SpecDecode).                        *)
(***************************************************************************)
\* C9: every command is the 8 bytes F6 03 20 01 | property | 10 01 | value
\* of the table, Set-Position(p) has value p for p in 0..100 and fails for
\* every other p.
C9_CommandBytes ==
    /\ request = <<"send_up_command">> =>
           encoded = [err |-> "none", bytes |-> <<246, 3, 32, 1, 255, 16, 1, 0>>]
    /\ request = <<"send_down_command">> =>
           encoded = [err |-> "none", bytes |-> <<246, 3, 32, 1, 255, 16, 1, 1>>]
    /\ request = <<"send_stop_command">> =>
           encoded = [err |-> "none", bytes |-> <<246, 3, 32, 1, 253, 16, 1, 0>>]
    /\ request = <<"send_step_up_command">> =>
           encoded = [err |-> "none", bytes |-> <<246, 3, 32, 1, 254, 16, 1, 0>>]
    /\ request = <<"send_step_down_command">> =>
           encoded = [err |-> "none", bytes |-> <<246, 3, 32, 1, 254, 16, 1, 1>>]
    /\ request[1] = "set_absolute_position" =>
           IF request[2] \in 0..100
           THEN encoded = [err |-> "none",
                           bytes |-> <<246, 3, 32, 1, 252, 16, 1, request[2]>>]
           ELSE encoded.err = "ValueError"

\* Set-Position(42) was encoded as F6032001FC10012A
C9_Witness ==
    /\ request = <<"set_absolute_position", 42>>
    /\ encoded.bytes = <<246, 3, 32, 1, 252, 16, 1, 42>>

Abs(x) == IF x < 0 THEN 0 - x ELSE x

\* the 7 bytes F7 03 20 01 F6 10 01 stand at 0-based offset i of s
PrefixAt(s, i) ==
    /\ i + 7 <= Len(s)
    /\ <<s[i + 1], s[i + 2], s[i + 3], s[i + 4], s[i + 5], s[i + 6], s[i + 7]>>
           = <<247, 3, 32, 1, 246, 16, 1>>

\* r is 100 * (255 - b) / 255 rounded to the nearest integer
NearestPercent(r, b) ==
    /\ r \in 0..100
    /\ 2 * Abs(255 * r - 100 * (255 - b)) <= 255

\* the position byte b of s: the prefix first occurs at offset i and b is
\* the byte behind it
FramedByte(s, i) ==
    /\ PrefixAt(s, i)
    /\ \A j \in 0..(i - 1) : ~PrefixAt(s, j)
    /\ Len(s) >= i + 8

\* C10 as claimed: when the prefix first occurs at offset i and a byte b
\* follows it, the decoded position is round(100 * (255 - b) / 255),
\* whatever the bytes before the prefix and after b; 0 gives 100, 255 gives
\* 0, 0x7A gives 51.
C10_AsClaimed ==
    decoded # Pending =>
        \A i \in 0..Len(payload) :
            FramedByte(payload, i) =>
                LET b == payload[i + 8]
                IN  /\ decoded # None
                    /\ NearestPercent(decoded[1], b)
                    /\ (b = 0 => decoded = <<100>>)
                    /\ (b = 255 => decoded = <<0>>)
                    /\ (b = 122 => decoded = <<51>>)

\* C10, amended: when the prefix first occurs at offset i and a byte b
\* follows it, the decoded position is round(100 * (255 - b) / 255),
\* whatever the bytes before the prefix and after b; 0 gives 100, 255 gives
\* 0, 0x7A gives 52.
C10_DecodedPosition ==
    decoded # Pending =>
        \A i \in 0..Len(payload) :
            FramedByte(payload, i) =>
                LET b == payload[i + 8]
                IN  /\ decoded # None
                    /\ NearestPercent(decoded[1], b)
                    /\ (b = 0 => decoded = <<100>>)
                    /\ (b = 255 => decoded = <<0>>)
                    /\ (b = 122 => decoded = <<52>>)

\* 0x7A after a prefix at offset 1, with a byte behind it, decoded as 52
C10_Witness ==
    /\ payload = <<0, 247, 3, 32, 1, 246, 16, 1, 122, 247>>
    /\ decoded = <<52>>

\* task t leaves position p of its call in this step
Passes(t, p) == pc[t] = p /\ pc'[t] # p

\* C16: the write on a live stored handle asks for no acknowledgment and
\* the call returns when it succeeds; when it fails, the call disconnects
\* the stale handle, clears the stored handle and goes on, in the same
\* call, to the device resolution; every write on a fresh connection asks
\* for an acknowledgment.
C16_DirectWriteFallsThrough ==
    [][\A t \in Tasks :
          /\ Passes(t, "direct_write")
                => /\ response'[t] = <<FALSE>>
                   /\ pc'[t] \in {"direct_return", "stale_disconnect"}
          /\ Passes(t, "direct_return")
                => pc'[t] = "done" /\ result'[t] = "ok"
          /\ Passes(t, "stale_disconnect")
                => /\ _client \notin live'
                   /\ _client' = None
                   /\ pc'[t] = "resolve"
                   /\ call'[t] = call[t]
          /\ Passes(t, "write")
                => /\ response'[t] = <<TRUE>>
                   /\ client[t] # None]_vars

\* C18: every send_command that was started completes, and has released
\* the lock then; every call waiting for the lock gets it; a call makes at
\* most one establish_connection call, of at most 5 attempts.
C18_EveryCallCompletes ==
    /\ \A t \in Tasks : (pc[t] \notin {"idle", "done"}) ~> (pc[t] = "done")
    /\ \A t \in Tasks : (pc[t] = "wait") ~> (_is_connecting = <<t>>)
    /\ [](\A t \in Tasks :
             /\ pc[t] = "done" => _is_connecting # <<t>>
             /\ connCalls[t] <= 1
             /\ attempts[t] < 5)

\* one call has already failed four connection attempts while another
\* waits for the lock
C18_Witness ==
    \E t, u \in Tasks :
        /\ pc[t] = "connect"
        /\ attempts[t] = 4
        /\ pc[u] = "wait"
        /\ waiters = <<u>>

\* task t takes the lock in this step
Acquires(t) == _is_connecting # <<t>> /\ _is_connecting' = <<t>>

\* C19: as long as no disconnect() has raised, the stored handle is None
\* whenever a send_command takes the lock, so the call goes to the device
\* resolution and not to the direct write; no call is on the direct path,
\* and a call that writes does so on the connection it has established
\* itself.
C19_NoDirectPathWithoutRaise ==
    /\ [](~raised =>
             \A t \in Tasks :
                 /\ path[t] \in {"none", "fresh"}
                 /\ pc[t] \notin {"direct_write", "direct_return",
                                  "stale_disconnect"}
                 /\ pc[t] = "write"
                       => /\ connCalls[t] = 1
                          /\ client[t] # None
                          /\ _client = client[t])
    /\ [][\A t \in Tasks :
             ~raised /\ Acquires(t)
                 => /\ _client = None
                    /\ pc'[t] = "resolve"]_vars

\* no disconnect() has raised, one call has ended well and another is at
\* the device resolution with no handle stored
C19_Witness ==
    /\ ~raised
    /\ _client = None
    /\ \E t, u \in Tasks :
           /\ pc[t] = "done"
           /\ result[t] = "ok"
           /\ pc[u] = "resolve"

(***************************************************************************)
(* Properties of the decoding (SpecDecode).                                *)
(***************************************************************************)
\* x / 255 rounded to the nearest integer, a tie upwards
RoundHalfUp(x) == (2 * x + 255) \div 510

\* C20: for the position byte b of a decoded payload, 100 * (255 - b) / 255
\* is not halfway between two integers and the decoded position is what
\* rounding a tie upwards gives; it is an integer from 0 to 100, and no
\* smaller byte decodes to a smaller position.
C20_RoundingAgrees ==
    decoded \notin {Pending, None} =>
        \A i \in 0..Len(payload) :
            FramedByte(payload, i) =>
                LET b == payload[i + 8]
                    x == 100 * (255 - b)
                IN  /\ 2 * (x % 255) # 255
                    /\ decoded[1] = RoundHalfUp(x)
                    /\ decoded[1] \in 0..100
                    /\ \A c \in 0..b : ha_position(c) >= decoded[1]

\* 0x80, where 100 * 127 / 255 = 49.8 is rounded up to 50
C20_Witness ==
    /\ payload = <<247, 3, 32, 1, 246, 16, 1, 128>>
    /\ decoded = <<50>>

(***************************************************************************)
(* Properties of the passive listener (SpecListener).                      *)
(***************************************************************************)
\* the two letters are the same hexadecimal letter in different case
CasePairs ==
    {<<"a", "A">>, <<"b", "B">>, <<"c", "C">>, <<"d", "D">>, <<"e", "E">>,
     <<"f", "F">>}

\* the addresses a and b are equal but for the case of their letters
SameIgnoringCase(a, b) ==
    /\ Len(a) = Len(b)
    /\ \A i \in 1..Len(a) :
           \/ a[i] = b[i]
           \/ <<a[i], b[i]>> \in CasePairs
           \/ <<b[i], a[i]>> \in CasePairs

\* the advertisement is for another device
WrongAddress(info) == ~SameIgnoringCase(info.address, Address)

\* the advertisement has no manufacturer data under 1412
NoGiraData(info) == 1412 \notin DOMAIN info.manufacturer_data

\* the prefix is nowhere in the payload under 1412
PrefixAbsent(info) ==
    /\ ~NoGiraData(info)
    /\ \A i \in 0..Len(info.manufacturer_data[1412]) :
           ~PrefixAt(info.manufacturer_data[1412], i)

\* the prefix the search finds (its first occurrence) is the last 7 bytes
\* of the payload under 1412
PrefixLast(info) ==
    /\ ~NoGiraData(info)
    /\ LET s == info.manufacturer_data[1412]
       IN  /\ PrefixAt(s, Len(s) - 7)
           /\ \A j \in 0..(Len(s) - 8) : ~PrefixAt(s, j)

\* C11: an advertisement whose address does not match the target address
\* but for case, or that has no manufacturer data under 1412, or whose
\* payload does not hold the prefix, or whose payload ends with the prefix
\* it holds, is discarded: the held position, the cover's position and the
\* state consumers see stay as they were and no subscriber is notified.
C11_Discarded ==
    [][/\ callback' = "advertisement"
       /\ \/ WrongAddress(event')
          \/ NoGiraData(event')
          \/ PrefixAbsent(event')
          \/ PrefixLast(event')
       => /\ data' = data
          /\ _attr_current_cover_position' = _attr_current_cover_position
          /\ ha_state' = ha_state
          /\ notified' = FALSE]_vars

\* with the position 52 held, an advertisement whose payload ends with the
\* prefix was handled: 52 is still held and nobody was notified
C11_Witness ==
    /\ callback = "advertisement"
    /\ event = [address |-> Address,
                manufacturer_data |-> 1412 :> <<0, 247, 3, 32, 1, 246, 16, 1>>]
    /\ data = <<52>>
    /\ notified = FALSE

\* the advertisement is for the target device and its payload under 1412
\* holds the prefix with a byte behind its first occurrence
Valid(info) ==
    /\ ~WrongAddress(info)
    /\ ~NoGiraData(info)
    /\ \E i \in 0..Len(info.manufacturer_data[1412]) :
           FramedByte(info.manufacturer_data[1412], i)

\* the position a valid advertisement carries
Carries(info, r) ==
    LET s == info.manufacturer_data[1412]
    IN  \E i \in 0..Len(s) : FramedByte(s, i) /\ NearestPercent(r, s[i + 8])

\* C12: the cover's position and the position consumers see are always the
\* position the listener holds; a valid advertisement for the target device
\* replaces the held position by the value it carries and notifies the
\* subscribers; nothing else changes the held position (so it is that of
\* the most recent valid advertisement, unknown if there was none), and a
\* known position never becomes unknown.
C12_LatestValidPosition ==
    /\ [](/\ _attr_current_cover_position = data
          /\ ha_state.position = data)
    /\ [][/\ callback' = "advertisement" /\ Valid(event')
                => /\ data' # None
                   /\ Carries(event', data'[1])
                   /\ notified' = TRUE
          /\ data' # data
                => callback' = "advertisement" /\ Valid(event')
          /\ data # None => data' # None]_vars

\* 100 is held from the last valid advertisement although an advertisement
\* of another device, carrying 52, was handled after it
C12_Witness ==
    /\ callback = "advertisement"
    /\ event = [address |-> OtherAddress,
                manufacturer_data |-> 1412 :> <<247, 3, 32, 1, 246, 16, 1, 122>>]
    /\ data = <<100>>
    /\ _attr_current_cover_position = <<100>>

\* C14: on the unavailable signal the listener sets last_update_success to
\* False and notifies its subscribers; the held position stays as it was.
C14_UnavailableKeepsPosition ==
    [][callback' = "unavailable"
          => /\ last_update_success' = FALSE
             /\ notified' = TRUE
             /\ data' = data]_vars

\* the unavailable signal came while 52 was held: the listener is stale,
\* the subscribers were notified, 52 is still held
C14_Witness ==
    /\ callback = "unavailable"
    /\ last_update_success = FALSE
    /\ notified = TRUE
    /\ data = <<52>>

\* C15: the listener is not stale right after it has processed a valid
\* advertisement for the target device: last_update_success is True, also
\* when the unavailable signal had set it to False before.
C15_ValidAdvertisementClearsStale ==
    callback = "advertisement" /\ Valid(event)
        => last_update_success = TRUE

(***************************************************************************)
(* Properties of the cover entity (SpecCover).                             *)
(***************************************************************************)
\* the command the cover made for task t has failed with UpdateFailed
CoverCommandFailed(t) ==
    via[t] /\ pc[t] = "done" /\ result[t] = "UpdateFailed"

\* C13: the availability the cover reports to consumers is true in every
\* state, also after the unavailable signal and after a failed command of
\* the cover.
C13_AlwaysAvailable ==
    /\ available = TRUE
    /\ ha_state.available = TRUE

\* the unavailable signal has come and a command of the cover has failed on
\* its write; the state consumers see still says available
C13_Witness ==
    /\ callback = "unavailable"
    /\ \E t \in Tasks : CoverCommandFailed(t) /\ cause[t] = "write_error"
    /\ ha_state.available = TRUE

\* C17: after a command of the cover has failed with UpdateFailed, the
\* cover is marked unavailable and is reported unavailable to consumers.
C17_ReportedUnavailable ==
    \A t \in Tasks :
        CoverCommandFailed(t) =>
            /\ _attr_available = FALSE
            /\ ha_state.available = FALSE
====
